---- MODULE Spec2Model ----
(***************************************************************************)
(* Model of the rule-based post-processing layer of rebar-system:          *)
(*   utils/geometry.py   convex_hull (Andrew's monotone chain),            *)
(*                       find_inner_points, generate_hoop_path             *)
(*   app.py              process_spacing_check, analyze                    *)
(*   utils/ocr_helper.py parse_pingfa, parse_column_id,                    *)
(*                       parse_section_size, get_design_total,             *)
(*                       check_compliance                                  *)
(* The functions are pure; each gets a specification whose Init draws the  *)
(* call's arguments from bounded sets and whose actions apply the          *)
(* function and store what it returns.  The handler analyze is modelled    *)
(* step by step, one process per request in flight.                        *)
(*                                                                         *)
(* Numbers: coordinates, targets and tolerances are integers and the       *)
(* square root of the pixel distance is compared exactly (by squares), so  *)
(* binary floating-point rounding is outside the model.                    *)
(***************************************************************************)
EXTENDS Integers, Sequences, FiniteSets, TLC

VARIABLES
    \* geometry.py: convex_hull
    points,                 \* the argument of convex_hull
    hull,                   \* convex_hull(points)
    rehull,                 \* convex_hull(hull)
    hoop,                   \* generate_hoop_path of the detections at points
    gstep,                  \* "idle" | "input" | "hull" | "rehull" | "hoop"
    \* app.py: process_spacing_check
    predictions,            \* the detections' centers, <<x, y>> each
    component_type,
    pixel_per_mm,
    target_spacing,
    target_spacing_dense,
    target_spacing_sparse,
    tolerance,
    spacing_result,         \* what the call produced: a list or an exception
    sstep,                  \* "idle" | "input" | "done"
    \* ocr_helper.py: check_compliance
    detected_count,
    design_total,
    compliance,             \* the returned dict
    cstep,                  \* "idle" | "input" | "done"
    \* ocr_helper.py: parse_pingfa
    text,                   \* a sequence of one-character strings
    rebar_config,           \* the returned list of {"count", "diameter"}
    pstep,                  \* "idle" | "input" | "done"
    \* ocr_helper.py: parse_column_id, parse_section_size
    ocr_text,               \* a sequence of one-character strings
    column_id,              \* parse_column_id(ocr_text)
    section_size,           \* parse_section_size(ocr_text)
    ostep,                  \* "idle" | "input" | "done"
    \* app.py: analyze, one entry per request being handled
    handler_pc,             \* where each handler stands
    temp_path,              \* the uuid in the name of its temporary file, or 0
    response,               \* the HTTP status it returned, or 0
    files                   \* the uuids of the rebar_<uuid>.jpg files on disk

geomVars == <<points, hull, rehull, hoop, gstep>>
spacingVars == <<predictions, component_type, pixel_per_mm, target_spacing,
                 target_spacing_dense, target_spacing_sparse, tolerance,
                 spacing_result, sstep>>
complianceVars == <<detected_count, design_total, compliance, cstep>>
parseVars == <<text, rebar_config, pstep>>
ocrVars == <<ocr_text, column_id, section_size, ostep>>
analyzeVars == <<handler_pc, temp_path, response, files>>
vars == <<geomVars, spacingVars, complianceVars, parseVars, ocrVars, analyzeVars>>

(***************************************************************************)
(* Bounds of the model.                                                    *)
(***************************************************************************)
MaxX == 2           \* hull points have x in 0..MaxX
MaxPoints == 4      \* longest argument list of convex_hull
MaxPx == 4          \* detection centers have x in 0..MaxPx
MaxPreds == 3       \* longest list of predictions
MaxCount == 7       \* counts given to check_compliance lie in -MaxCount..MaxCount
MaxTextLen == 4     \* longest text enumerated over the whole alphabet
MaxDigits == 5      \* longest number in the texts given to parse_section_size
MaxRequests == 2    \* analyze requests handled at the same time

\* x is a sequence over S of length 0..n.
IsSeqUpTo(x, S, n) == \E k \in 0..n : x \in [1..k -> S]

\* The points convex_hull is applied to.
GridYs == 0..2
GridPoints == (0..MaxX) \X GridYs

(***************************************************************************)
(* Generic list helpers (Python list semantics).                           *)
(***************************************************************************)
ToSet(s) == {s[i] : i \in 1..Len(s)}

Reverse(s) == [i \in 1..Len(s) |-> s[Len(s) + 1 - i]]

\* s[:-1]
DropLast(s) == IF Len(s) = 0 THEN s ELSE SubSeq(s, 1, Len(s) - 1)

Abs(n) == IF n < 0 THEN -n ELSE n

Max(S) == CHOOSE m \in S : \A n \in S : n <= m
Min(S) == CHOOSE m \in S : \A n \in S : m <= n

\* Python's tuple order on pairs: first component, then second.
TupleLess(p, q) == p[1] < q[1] \/ (p[1] = q[1] /\ p[2] < q[2])

RECURSIVE SortedSet(_)
\* sorted(set(points)): the distinct points in ascending tuple order.
SortedSet(S) ==
    IF S = {} THEN <<>>
    ELSE LET m == CHOOSE p \in S : \A q \in S \ {p} : TupleLess(p, q)
         IN <<m>> \o SortedSet(S \ {m})

(***************************************************************************)
(* geometry.py                                                             *)
(***************************************************************************)
cross_product(o, a, b) ==
    (a[1] - o[1]) * (b[2] - o[2]) - (a[2] - o[2]) * (b[1] - o[1])

\* Mutant of PopWhile: "if" in place of "while", at most one pop.
PopOnce(chain, p) ==
    IF Len(chain) >= 2
       /\ cross_product(chain[Len(chain) - 1], chain[Len(chain)], p) <= 0
    THEN DropLast(chain)
    ELSE chain

RECURSIVE PopWhileStrict(_, _)
\* Mutant of PopWhile: pops on "< 0", which keeps collinear points.
PopWhileStrict(chain, p) ==
    IF Len(chain) >= 2
       /\ cross_product(chain[Len(chain) - 1], chain[Len(chain)], p) < 0
    THEN PopWhileStrict(DropLast(chain), p)
    ELSE chain

RECURSIVE PopWhile(_, _)
\* while len(chain) >= 2 and cross_product(chain[-2], chain[-1], p) <= 0:
\*     chain.pop()
PopWhile(chain, p) ==
    IF Len(chain) >= 2
       /\ cross_product(chain[Len(chain) - 1], chain[Len(chain)], p) <= 0
    THEN PopWhile(DropLast(chain), p)
    ELSE chain

RECURSIVE BuildChain(_, _, _)
\* The loop "for p in pts: <pop>; chain.append(p)", from the i-th point on.
BuildChain(pts, i, chain) ==
    IF i > Len(pts) THEN chain
    ELSE BuildChain(pts, i + 1, Append(PopWhile(chain, pts[i]), pts[i]))

\* Mutant of convex_hull: the chains are joined without dropping their last
\* points, so both end points appear twice.
convex_hull_untrimmed(pts) ==
    IF Len(pts) < 3 THEN pts
    ELSE LET sorted == SortedSet(ToSet(pts))
         IN IF Len(sorted) < 3 THEN sorted
            ELSE BuildChain(sorted, 1, <<>>)
                 \o BuildChain(Reverse(sorted), 1, <<>>)

RECURSIVE Distinct(_)
\* The elements of s in the order of their first occurrence.
Distinct(s) ==
    IF s = <<>> THEN <<>>
    ELSE LET front == Distinct(DropLast(s))
         IN IF s[Len(s)] \in ToSet(front) THEN front
            ELSE Append(front, s[Len(s)])

\* Mutant of convex_hull: the distinct points are not sorted (list(set(..)) in
\* place of sorted(set(..))), and are scanned in their input order.
convex_hull_unsorted(pts) ==
    IF Len(pts) < 3 THEN pts
    ELSE LET sorted == Distinct(pts)
         IN IF Len(sorted) < 3 THEN sorted
            ELSE LET lower == BuildChain(sorted, 1, <<>>)
                     upper == BuildChain(Reverse(sorted), 1, <<>>)
                 IN DropLast(lower) \o DropLast(upper)

\* Mutant of convex_hull: the chains are joined upper first
\* (upper[:-1] + lower[:-1]), which starts the hull at the largest point.
convex_hull_upper_first(pts) ==
    IF Len(pts) < 3 THEN pts
    ELSE LET sorted == SortedSet(ToSet(pts))
         IN IF Len(sorted) < 3 THEN sorted
            ELSE LET lower == BuildChain(sorted, 1, <<>>)
                     upper == BuildChain(Reverse(sorted), 1, <<>>)
                 IN DropLast(upper) \o DropLast(lower)

convex_hull(pts) ==
    IF Len(pts) < 3 THEN pts
    ELSE LET sorted == SortedSet(ToSet(pts))
         IN IF Len(sorted) < 3 THEN sorted
            ELSE LET lower == BuildChain(sorted, 1, <<>>)
                     upper == BuildChain(Reverse(sorted), 1, <<>>)
                 IN DropLast(lower) \o DropLast(upper)

\* Mutant of find_inner_points: a set difference, which loses the order and
\* the repetitions of all_points.
find_inner_points_set(all_points, hull_pts) ==
    SortedSet(ToSet(all_points) \ ToSet(hull_pts))

\* [p for p in all_points if p not in set(hull)]
find_inner_points(all_points, hull_pts) ==
    SelectSeq(all_points, LAMBDA p : p \notin ToSet(hull_pts))

\* Mutant of InnerTie: ">=" in place of ">", so a point as far from the center
\* in x as in y gets a horizontal tie.
InnerTieGeq(p, min_x, max_x, min_y, max_y) ==
    IF Abs(2 * p[1] - (min_x + max_x)) >= Abs(2 * p[2] - (min_y + max_y))
    THEN [from |-> [x |-> min_x, y |-> p[2]],
          to |-> [x |-> max_x, y |-> p[2]],
          type |-> "horizontal"]
    ELSE [from |-> [x |-> p[1], y |-> min_y],
          to |-> [x |-> p[1], y |-> max_y],
          type |-> "vertical"]

\* Mutant of InnerTie: the horizontal tie is drawn at y = p[0] and the vertical
\* one at x = p[1], the two coordinates of the point taken for each other.
InnerTieSwappedCoordinate(p, min_x, max_x, min_y, max_y) ==
    IF Abs(2 * p[1] - (min_x + max_x)) > Abs(2 * p[2] - (min_y + max_y))
    THEN [from |-> [x |-> min_x, y |-> p[1]],
          to |-> [x |-> max_x, y |-> p[1]],
          type |-> "horizontal"]
    ELSE [from |-> [x |-> p[2], y |-> min_y],
          to |-> [x |-> p[2], y |-> max_y],
          type |-> "vertical"]

\* The tie of the inner point p.  center_x = (min_x + max_x) / 2 and center_y
\* likewise; the comparison abs(p.x - center_x) > abs(p.y - center_y) is made
\* on the doubled values, which are integers.
InnerTie(p, min_x, max_x, min_y, max_y) ==
    IF Abs(2 * p[1] - (min_x + max_x)) > Abs(2 * p[2] - (min_y + max_y))
    THEN [from |-> [x |-> min_x, y |-> p[2]],
          to |-> [x |-> max_x, y |-> p[2]],
          type |-> "horizontal"]
    ELSE [from |-> [x |-> p[1], y |-> min_y],
          to |-> [x |-> p[1], y |-> max_y],
          type |-> "vertical"]

\* Mutant of generate_hoop_path: the guard reads "len(predictions) < 2".
generate_hoop_path_two(preds) ==
    IF Len(preds) < 2
    THEN [outer_hoop |-> <<>>, inner_ties |-> <<>>]
    ELSE LET hull_pts == convex_hull(preds)
             inner == find_inner_points(preds, hull_pts)
             outer_hoop == [i \in 1..Len(hull_pts) |->
                               [x |-> hull_pts[i][1], y |-> hull_pts[i][2]]]
             min_x == Min({hull_pts[i][1] : i \in 1..Len(hull_pts)})
             max_x == Max({hull_pts[i][1] : i \in 1..Len(hull_pts)})
             min_y == Min({hull_pts[i][2] : i \in 1..Len(hull_pts)})
             max_y == Max({hull_pts[i][2] : i \in 1..Len(hull_pts)})
         IN [outer_hoop |-> outer_hoop,
             inner_ties |->
                 IF inner # <<>> /\ hull_pts # <<>>
                 THEN [i \in 1..Len(inner) |->
                          InnerTie(inner[i], min_x, max_x, min_y, max_y)]
                 ELSE <<>>]

\* predictions are given by their centers <<x, y>>, the only keys read.
generate_hoop_path(preds) ==
    IF Len(preds) < 3
    THEN [outer_hoop |-> <<>>, inner_ties |-> <<>>]
    ELSE LET hull_pts == convex_hull(preds)
             inner == find_inner_points(preds, hull_pts)
             outer_hoop == [i \in 1..Len(hull_pts) |->
                               [x |-> hull_pts[i][1], y |-> hull_pts[i][2]]]
             min_x == Min({hull_pts[i][1] : i \in 1..Len(hull_pts)})
             max_x == Max({hull_pts[i][1] : i \in 1..Len(hull_pts)})
             min_y == Min({hull_pts[i][2] : i \in 1..Len(hull_pts)})
             max_y == Max({hull_pts[i][2] : i \in 1..Len(hull_pts)})
         IN [outer_hoop |-> outer_hoop,
             inner_ties |->
                 IF inner # <<>> /\ hull_pts # <<>>
                 THEN [i \in 1..Len(inner) |->
                          InnerTie(inner[i], min_x, max_x, min_y, max_y)]
                 ELSE <<>>]

(***************************************************************************)
(* app.py: process_spacing_check                                           *)
(*                                                                         *)
(* A segment's pixel distance is sqrt(d2) with d2 the integer squared      *)
(* distance of its end points, and its mm distance is sqrt(d2) / ppm.      *)
(* Both are irrational in general; the model keeps d2 and ppm and decides  *)
(* every comparison exactly on squares.                                    *)
(***************************************************************************)
RECURSIVE ISqrtFrom(_, _)
ISqrtFrom(n, k) == IF (k + 1) * (k + 1) > n THEN k ELSE ISqrtFrom(n, k + 1)

\* floor(sqrt(n)) for n >= 0
ISqrt(n) == ISqrtFrom(n, 0)

\* Mutant of RoundTenths: the value is cut after the first decimal
\* (int(10 * x) / 10) and not rounded.
RoundTenthsDown(d2, q) == ISqrt(100 * d2) \div q

\* round(sqrt(d2) / q, 1) for q > 0, in tenths.  Python rounds a float to the
\* nearest tenth and an exact tie (the value is an odd multiple of 1/20, then
\* an odd multiple of 1/4 and exact in binary) to the even tenth.
RoundTenths(d2, q) ==
    LET k == ISqrt(100 * d2) \div q                \* floor(10 * sqrt(d2) / q)
        twice == ((2 * k + 1) * q) * ((2 * k + 1) * q)   \* (k + 1/2) vs value
    IN IF twice < 400 * d2 THEN k + 1
       ELSE IF twice > 400 * d2 THEN k
       ELSE IF k % 2 = 0 THEN k ELSE k + 1

\* sqrt(d2) / ppm >= k, for ppm > 0
MmGeq(d2, ppm, k) == k * ppm <= 0 \/ (k * ppm) * (k * ppm) <= d2

\* sqrt(d2) / ppm <= k, for ppm > 0
MmLeq(d2, ppm, k) == k * ppm >= 0 /\ d2 <= (k * ppm) * (k * ppm)

\* Mutant of AbsDiffLeq: "<" in place of "<=".
AbsDiffLess(d2, ppm, target, tol) ==
    IF MmGeq(d2, ppm, target)
    THEN ~MmGeq(d2, ppm, target + tol)
    ELSE ~MmLeq(d2, ppm, target - tol)

\* abs(mm_dist - target) <= tol, with mm_dist = sqrt(d2) / ppm: the sign of
\* mm_dist - target selects which side abs() compares.
AbsDiffLeq(d2, ppm, target, tol) ==
    IF MmGeq(d2, ppm, target)
    THEN MmLeq(d2, ppm, target + tol)       \* mm_dist - target <= tol
    ELSE MmGeq(d2, ppm, target - tol)       \* target - mm_dist <= tol

RECURSIVE InsertByKey(_, _, _)
\* Insert c into the list s, sorted on coordinate k, after every element whose
\* key is not greater: list.sort(key=...) is stable.
InsertByKey(s, c, k) ==
    IF s = <<>> THEN <<c>>
    ELSE IF c[k] < s[1][k] THEN <<c>> \o s
    ELSE <<s[1]>> \o InsertByKey(Tail(s), c, k)

RECURSIVE SortByKey(_, _)
\* centers.sort(key=lambda c: c[k])
SortByKey(s, k) ==
    IF s = <<>> THEN <<>>
    ELSE InsertByKey(SortByKey(DropLast(s), k), s[Len(s)], k)

\* Mutant of SortedCenters: the sort is missing and the segments join the
\* centers in detection order.
SortedCentersAsDetected(centers) == centers

\* The centers in the order the segments are taken from.
SortedCenters(centers) ==
    LET xs == {centers[i][1] : i \in 1..Len(centers)}
        ys == {centers[i][2] : i \in 1..Len(centers)}
        x_range == Max(xs) - Min(xs)
        y_range == Max(ys) - Min(ys)
    IN IF x_range >= y_range THEN SortByKey(centers, 1)
       ELSE SortByKey(centers, 2)

\* Mutant of Classification: the sparse window is tested before the dense one.
ClassificationSparseFirst(ctype, d2, ppm, target, dense, sparse, tol) ==
    IF ctype = "slab_wall" THEN
        IF AbsDiffLeq(d2, ppm, target, tol)
        THEN [status |-> "pass", color |-> "#00e676", label |-> "pass"]
        ELSE [status |-> "fail", color |-> "#ff1744", label |-> "fail"]
    ELSE IF ctype = "beam_column" THEN
        IF AbsDiffLeq(d2, ppm, sparse, tol)
        THEN [status |-> "pass_sparse", color |-> "#00e676",
              label |-> "pass_sparse"]
        ELSE IF AbsDiffLeq(d2, ppm, dense, tol)
        THEN [status |-> "pass_dense", color |-> "#00e5ff",
              label |-> "pass_dense"]
        ELSE [status |-> "fail", color |-> "#ff1744", label |-> "fail"]
    ELSE <<>>

\* The status, color and label keys process_spacing_check adds to a segment
\* (the label, a display text, is kept as the name of its class); no key at
\* all for a component type that matches neither branch.
Classification(ctype, d2, ppm, target, dense, sparse, tol) ==
    IF ctype = "slab_wall" THEN
        IF AbsDiffLeq(d2, ppm, target, tol)
        THEN [status |-> "pass", color |-> "#00e676", label |-> "pass"]
        ELSE [status |-> "fail", color |-> "#ff1744", label |-> "fail"]
    ELSE IF ctype = "beam_column" THEN
        IF AbsDiffLeq(d2, ppm, dense, tol)
        THEN [status |-> "pass_dense", color |-> "#00e5ff",
              label |-> "pass_dense"]
        ELSE IF AbsDiffLeq(d2, ppm, sparse, tol)
        THEN [status |-> "pass_sparse", color |-> "#00e676",
              label |-> "pass_sparse"]
        ELSE [status |-> "fail", color |-> "#ff1744", label |-> "fail"]
    ELSE <<>>

\* spacing_info of the i-th segment (index i - 1) of the sorted centers.
\* Coordinates are integers, which round(.., 1) leaves as they are; the two
\* distances are in tenths.
SpacingInfo(centers, i, ctype, ppm, target, dense, sparse, tol) ==
    LET sx == centers[i][1]
        sy == centers[i][2]
        ex == centers[i + 1][1]
        ey == centers[i + 1][2]
        d2 == (ex - sx) * (ex - sx) + (ey - sy) * (ey - sy)
    IN [index |-> i - 1,
        start |-> [x |-> sx, y |-> sy],
        end |-> [x |-> ex, y |-> ey],
        px_distance |-> RoundTenths(d2, 1),
        mm_distance |-> RoundTenths(d2, ppm)]
       @@ Classification(ctype, d2, ppm, target, dense, sparse, tol)

\* Mutant of process_spacing_check: the guard reads "pixel_per_mm < 0", and a
\* scale of 0 reaches the division.
process_spacing_check_zero_scale(preds, ctype, ppm, target, dense, sparse, tol) ==
    IF Len(preds) = 0 \/ Len(preds) < 2 \/ ppm < 0
    THEN [raised |-> "", spacings |-> <<>>]
    ELSE IF ppm = 0
    THEN [raised |-> "ZeroDivisionError", spacings |-> <<>>]
    ELSE LET centers == SortedCenters(preds)
             spacings == [i \in 1..(Len(centers) - 1) |->
                             SpacingInfo(centers, i, ctype, ppm,
                                         target, dense, sparse, tol)]
         IN IF \E i \in 1..Len(spacings) : "status" \notin DOMAIN spacings[i]
            THEN [raised |-> "KeyError", spacings |-> <<>>]
            ELSE [raised |-> "", spacings |-> spacings]

\* The outcome of a call: the returned list, or the exception that leaves the
\* function.  The statistics line after the loop reads s['status'] of every
\* segment, which raises KeyError for a segment that has no such key.
process_spacing_check(preds, ctype, ppm, target, dense, sparse, tol) ==
    IF Len(preds) = 0 \/ Len(preds) < 2 \/ ppm <= 0
    THEN [raised |-> "", spacings |-> <<>>]
    ELSE LET centers == SortedCenters(preds)
             spacings == [i \in 1..(Len(centers) - 1) |->
                             SpacingInfo(centers, i, ctype, ppm,
                                         target, dense, sparse, tol)]
         IN IF \E i \in 1..Len(spacings) : "status" \notin DOMAIN spacings[i]
            THEN [raised |-> "KeyError", spacings |-> <<>>]
            ELSE [raised |-> "", spacings |-> spacings]

(***************************************************************************)
(* utils/ocr_helper.py: check_compliance                                   *)
(*                                                                         *)
(* A message is kept as the name of its f-string and the numbers the       *)
(* f-string interpolates, in order.                                        *)
(***************************************************************************)
\* Mutant of check_compliance: the "design_total == 0" guard is missing.
check_compliance_no_guard(detected, design) ==
    LET diff == detected - design
    IN IF diff = 0
       THEN [status |-> "PASS",
             message |-> [template |-> "pass", numbers |-> <<detected, design>>]]
       ELSE IF diff > 0
       THEN [status |-> "WARNING",
             message |-> [template |-> "warning",
                          numbers |-> <<detected, design, diff>>]]
       ELSE [status |-> "FAIL",
             message |-> [template |-> "fail",
                          numbers |-> <<detected, design, Abs(diff)>>]]

\* Mutant of check_compliance: the surplus and deficit branches are swapped.
check_compliance_swapped(detected, design) ==
    IF design = 0
    THEN [status |-> "UNKNOWN",
          message |-> [template |-> "unknown", numbers |-> <<>>]]
    ELSE LET diff == detected - design
         IN IF diff = 0
            THEN [status |-> "PASS",
                  message |-> [template |-> "pass",
                               numbers |-> <<detected, design>>]]
            ELSE IF diff < 0
            THEN [status |-> "WARNING",
                  message |-> [template |-> "warning",
                               numbers |-> <<detected, design, diff>>]]
            ELSE [status |-> "FAIL",
                  message |-> [template |-> "fail",
                               numbers |-> <<detected, design, Abs(diff)>>]]

\* Mutant of check_compliance: the deficit message interpolates diff, not
\* abs(diff).
check_compliance_signed_deficit(detected, design) ==
    IF design = 0
    THEN [status |-> "UNKNOWN",
          message |-> [template |-> "unknown", numbers |-> <<>>]]
    ELSE LET diff == detected - design
         IN IF diff = 0
            THEN [status |-> "PASS",
                  message |-> [template |-> "pass",
                               numbers |-> <<detected, design>>]]
            ELSE IF diff > 0
            THEN [status |-> "WARNING",
                  message |-> [template |-> "warning",
                               numbers |-> <<detected, design, diff>>]]
            ELSE [status |-> "FAIL",
                  message |-> [template |-> "fail",
                               numbers |-> <<detected, design, diff>>]]

check_compliance(detected, design) ==
    IF design = 0
    THEN [status |-> "UNKNOWN",
          message |-> [template |-> "unknown", numbers |-> <<>>]]
    ELSE LET diff == detected - design
         IN IF diff = 0
            THEN [status |-> "PASS",
                  message |-> [template |-> "pass",
                               numbers |-> <<detected, design>>]]
            ELSE IF diff > 0
            THEN [status |-> "WARNING",
                  message |-> [template |-> "warning",
                               numbers |-> <<detected, design, diff>>]]
            ELSE [status |-> "FAIL",
                  message |-> [template |-> "fail",
                               numbers |-> <<detected, design, Abs(diff)>>]]

(***************************************************************************)
(* utils/ocr_helper.py: parse_pingfa                                       *)
(*                                                                         *)
(* A text is a sequence of characters, each a string; "PHI" and "phi" name *)
(* the Greek capital and small letter phi.                                 *)
(***************************************************************************)
Digits == {"0", "1", "2", "3", "4", "5", "6", "7", "8", "9"}

DigitValue ==
    ("0" :> 0) @@ ("1" :> 1) @@ ("2" :> 2) @@ ("3" :> 3) @@ ("4" :> 4) @@
    ("5" :> 5) @@ ("6" :> 6) @@ ("7" :> 7) @@ ("8" :> 8) @@ ("9" :> 9)

\* \d
IsDigit(c) == c \in Digits

\* \s
IsSpace(c) == c \in {" ", "\t", "\n"}

\* [C PHI phi] under re.IGNORECASE
IsMark(c) == c \in {"C", "c", "PHI", "phi"}

RECURSIVE ToInt(_)
\* int(s) of a string of decimal digits
ToInt(s) ==
    IF s = <<>> THEN 0
    ELSE 10 * ToInt(DropLast(s)) + DigitValue[s[Len(s)]]

RECURSIVE SkipDigits(_, _)
\* The position after the longest run of digits that starts at i (greedy \d+).
SkipDigits(t, i) ==
    IF i <= Len(t) /\ IsDigit(t[i]) THEN SkipDigits(t, i + 1) ELSE i

RECURSIVE SkipSpaces(_, _)
\* The position after the longest run of whitespace that starts at i (\s*).
SkipSpaces(t, i) ==
    IF i <= Len(t) /\ IsSpace(t[i]) THEN SkipSpaces(t, i + 1) ELSE i

\* The match of (\d+)\s*[C PHI phi]\s*(\d+) that starts at i, if there is one.
\* Each run is taken whole: the character after a run never matches what the
\* pattern asks next, so backtracking into a run finds nothing.
MatchAt(t, i) ==
    LET a == SkipDigits(t, i)
        b == SkipSpaces(t, a)
        d == SkipSpaces(t, b + 1)
        e == SkipDigits(t, d)
    IN IF a > i /\ b <= Len(t) /\ IsMark(t[b]) /\ e > d
       THEN [found |-> TRUE, next |-> e,
             groups |-> <<SubSeq(t, i, a - 1), SubSeq(t, d, e - 1)>>]
       ELSE [found |-> FALSE, next |-> i + 1, groups |-> <<>>]

RECURSIVE FindAll(_, _)
\* re.findall from position i: leftmost match, then on from its end.
FindAll(t, i) ==
    IF i > Len(t) THEN <<>>
    ELSE LET m == MatchAt(t, i)
         IN IF m.found THEN <<m.groups>> \o FindAll(t, m.next)
            ELSE FindAll(t, i + 1)

\* Mutant of InRange: the count check reads "0 <= count".
InRangeFromZero(item) ==
    /\ 0 <= item.count /\ item.count <= 50
    /\ 6 <= item.diameter /\ item.diameter <= 50

\* 1 <= count <= 50 and 6 <= diameter <= 50
InRange(item) ==
    /\ 1 <= item.count /\ item.count <= 50
    /\ 6 <= item.diameter /\ item.diameter <= 50

RECURSIVE KeepUntilInvalid(_)
KeepUntilInvalid(items) ==
    IF items = <<>> \/ ~InRange(Head(items)) THEN <<>>
    ELSE <<Head(items)>> \o KeepUntilInvalid(Tail(items))

\* Mutant of parse_pingfa: the loop ends at the first match out of range.
parse_pingfa_break(t) ==
    LET matches == FindAll(t, 1)
        items == [k \in 1..Len(matches) |->
                     [count |-> ToInt(matches[k][1]),
                      diameter |-> ToInt(matches[k][2])]]
    IN KeepUntilInvalid(items)

parse_pingfa(t) ==
    LET matches == FindAll(t, 1)
        items == [k \in 1..Len(matches) |->
                     [count |-> ToInt(matches[k][1]),
                      diameter |-> ToInt(matches[k][2])]]
    IN SelectSeq(items, InRange)

RECURSIVE get_design_total(_)
\* sum(item["count"] for item in rebar_config)
get_design_total(config) ==
    IF config = <<>> THEN 0
    ELSE config[1].count + get_design_total(Tail(config))

(***************************************************************************)
(* utils/ocr_helper.py: parse_column_id and parse_section_size             *)
(*                                                                         *)
(* "KELVIN" names the Kelvin sign U+212A, which re.IGNORECASE takes for a  *)
(* K and str.upper() leaves as it is; "times" names the multiplication     *)
(* sign U+00D7.  An Optional result is None or Some(value).                *)
(***************************************************************************)
None == [is_none |-> TRUE]

Some(v) == [is_none |-> FALSE, value |-> v]

\* [KGZ] under re.IGNORECASE
IsColumnLetter(c) == c \in {"K", "k", "KELVIN", "G", "g", "Z", "z"}

\* Z under re.IGNORECASE
IsZ(c) == c \in {"Z", "z"}

\* str.upper(), one character
UpperChar(c) ==
    CASE c = "k" -> "K"
      [] c = "g" -> "G"
      [] c = "z" -> "Z"
      [] c = "a" -> "A"
      [] c = "x" -> "X"
      [] OTHER -> c

Upper(s) == [i \in 1..Len(s) |-> UpperChar(s[i])]

RECURSIVE SkipColumnLetters(_, _)
\* The position after the longest run of [KGZ] that starts at i.
SkipColumnLetters(t, i) ==
    IF i <= Len(t) /\ IsColumnLetter(t[i]) THEN SkipColumnLetters(t, i + 1) ELSE i

\* The ends <<a, b>> of [KGZ]+ and of Z? in the matches of [KGZ]+Z?\d+ that
\* start at i: the letters end before a, the optional Z before b, and a
\* digit stands at b.
ColumnSplits(t, i) ==
    {ab \in ((i + 1)..SkipColumnLetters(t, i)) \X (1..(Len(t) + 1)) :
        /\ \/ ab[2] = ab[1]
           \/ ab[2] = ab[1] + 1 /\ ab[1] <= Len(t) /\ IsZ(t[ab[1]])
        /\ ab[2] <= Len(t) /\ IsDigit(t[ab[2]])}

\* The match of [KGZ]+Z?\d+ that starts at i: the regex engine takes the
\* longest [KGZ]+ that leads to a match, then the Z if it can, then every
\* digit.
ColumnMatchAt(t, i) ==
    LET splits == ColumnSplits(t, i)
    IN IF splits = {} THEN [found |-> FALSE, match |-> <<>>]
       ELSE LET a == Max({ab[1] : ab \in splits})
                b == Max({ab[2] : ab \in {x \in splits : x[1] = a}})
            IN [found |-> TRUE, match |-> SubSeq(t, i, SkipDigits(t, b) - 1)]

RECURSIVE ColumnSearch(_, _)
\* re.search(pattern, text, re.IGNORECASE) from position i
ColumnSearch(t, i) ==
    IF i > Len(t) THEN [found |-> FALSE, match |-> <<>>]
    ELSE IF ColumnMatchAt(t, i).found THEN ColumnMatchAt(t, i)
    ELSE ColumnSearch(t, i + 1)

parse_column_id(t) ==
    LET match == ColumnSearch(t, 1)
    IN IF match.found THEN Some(Upper(match.match)) ELSE None

\* [x times \*] under re.IGNORECASE
IsSizeSeparator(c) == c \in {"x", "X", "times", "*"}

\* The number of digits \d{3,4} takes at i, the most it can; 0 if fewer
\* than 3 digits stand there.
TakeDigits(t, i) ==
    LET run == SkipDigits(t, i) - i
    IN IF run >= 4 THEN 4 ELSE IF run = 3 THEN 3 ELSE 0

\* The match of (\d{3,4})\s*[x times \*]\s*(\d{3,4}) that starts at i with a
\* first group of n digits.
SizeMatchWith(t, i, n) ==
    LET b == SkipSpaces(t, i + n)
        d == SkipSpaces(t, b + 1)
        m == TakeDigits(t, d)
    IN IF /\ n >= 3 /\ n <= TakeDigits(t, i)
          /\ b <= Len(t) /\ IsSizeSeparator(t[b]) /\ m > 0
       THEN [found |-> TRUE,
             groups |-> <<SubSeq(t, i, i + n - 1), SubSeq(t, d, d + m - 1)>>]
       ELSE [found |-> FALSE, groups |-> <<>>]

\* The first group takes 4 digits, and 3 when that leads to no match.
SizeMatchAt(t, i) ==
    IF SizeMatchWith(t, i, 4).found THEN SizeMatchWith(t, i, 4)
    ELSE SizeMatchWith(t, i, 3)

RECURSIVE SizeSearch(_, _)
\* re.search(pattern, text, re.IGNORECASE) from position i
SizeSearch(t, i) ==
    IF i > Len(t) THEN [found |-> FALSE, groups |-> <<>>]
    ELSE IF SizeMatchAt(t, i).found THEN SizeMatchAt(t, i)
    ELSE SizeSearch(t, i + 1)

parse_section_size(t) ==
    LET match == SizeSearch(t, 1)
    IN IF match.found
       THEN Some(<<ToInt(match.groups[1]), ToInt(match.groups[2])>>)
       ELSE None

(***************************************************************************)
(* app.py: analyze                                                         *)
(*                                                                         *)
(* A temporary file is known by the uuid in its name.  uuid.uuid4() is     *)
(* modelled as it is specified: it returns a value that no earlier call    *)
(* returned.                                                               *)
(***************************************************************************)
\* Mutant of TempPaths: the name is fixed (rebar_temp.jpg), the same for every
\* request.
TempPathsFixed(used) == {1}

\* The uuids that uuid.uuid4() may return when those of used were returned
\* before.
TempPaths(used) == (1..(MaxRequests + 1)) \ used

\* How the try block of analyze ends: "raised" when the detection call
\* raises or the spacing check does, "ok" when jsonify(result) is returned.
\* The spacing check runs for mode 'spacing', a non-empty component_type and
\* pixel_per_mm > 0.
TryOutcome(detected, mode, ctype, ppm, preds) ==
    IF ~detected THEN "raised"
    ELSE IF /\ mode = "spacing" /\ ctype # "" /\ ppm > 0
            /\ process_spacing_check(preds, ctype, ppm, 2, 1, 3, 1).raised # ""
         THEN "raised"
         ELSE "ok"

(***************************************************************************)
(* Idle values of the components a specification does not exercise.        *)
(***************************************************************************)
GeomIdle ==
    /\ points = <<>> /\ hull = <<>> /\ rehull = <<>>
    /\ hoop = [outer_hoop |-> <<>>, inner_ties |-> <<>>]
    /\ gstep = "idle"

SpacingIdle ==
    /\ predictions = <<>> /\ component_type = "" /\ pixel_per_mm = 0
    /\ target_spacing = 0 /\ target_spacing_dense = 0
    /\ target_spacing_sparse = 0 /\ tolerance = 0
    /\ spacing_result = [raised |-> "", spacings |-> <<>>]
    /\ sstep = "idle"

ComplianceIdle ==
    /\ detected_count = 0 /\ design_total = 0
    /\ compliance = [status |-> "", message |-> <<>>]
    /\ cstep = "idle"

ParseIdle ==
    /\ text = <<>> /\ rebar_config = <<>> /\ pstep = "idle"

OcrIdle ==
    /\ ocr_text = <<>> /\ column_id = None /\ section_size = None
    /\ ostep = "idle"

AnalyzeIdle ==
    /\ handler_pc = <<>> /\ temp_path = <<>> /\ response = <<>>
    /\ files = {}

(***************************************************************************)
(* SpecHull: convex_hull applied to a list of points and then to its own   *)
(* output, or generate_hoop_path applied to detections at those points.    *)
(***************************************************************************)
InitHull ==
    /\ IsSeqUpTo(points, GridPoints, MaxPoints)
    /\ hull = <<>> /\ rehull = <<>>
    /\ hoop = [outer_hoop |-> <<>>, inner_ties |-> <<>>]
    /\ gstep = "input"
    /\ SpacingIdle /\ ComplianceIdle /\ ParseIdle /\ OcrIdle /\ AnalyzeIdle

\* hull = convex_hull(points)
ConvexHull ==
    /\ gstep = "input"
    /\ hull' = convex_hull(points)
    /\ gstep' = "hull"
    /\ UNCHANGED <<points, rehull, hoop, spacingVars, complianceVars, parseVars, ocrVars, analyzeVars>>

\* convex_hull(hull)
ConvexHullAgain ==
    /\ gstep = "hull"
    /\ rehull' = convex_hull(hull)
    /\ gstep' = "rehull"
    /\ UNCHANGED <<points, hull, hoop, spacingVars, complianceVars, parseVars, ocrVars, analyzeVars>>

\* generate_hoop_path(predictions), the predictions' centers being points
GenerateHoopPath ==
    /\ gstep = "input"
    /\ hoop' = generate_hoop_path(points)
    /\ gstep' = "hoop"
    /\ UNCHANGED <<points, hull, rehull, spacingVars, complianceVars, parseVars, ocrVars, analyzeVars>>

NextHull == ConvexHull \/ ConvexHullAgain \/ GenerateHoopPath

SpecHull == InitHull /\ [][NextHull]_vars

\* One call of convex_hull.
NextConvexHull == ConvexHull

SpecConvexHull == InitHull /\ [][NextConvexHull]_vars

\* One call of generate_hoop_path.
NextHoopPath == GenerateHoopPath

SpecHoopPath == InitHull /\ [][NextHoopPath]_vars

(***************************************************************************)
(* SpecSpacing: one call of process_spacing_check.                         *)
(***************************************************************************)
SpacingYs == {0, 1}
SpacingPoints == (0..MaxPx) \X SpacingYs
ComponentTypes == {"slab_wall", "beam_column", "column"}
PixelPerMms == {-1, 0, 1, 2}
TargetSpacings == {2}
TargetSpacingsDense == {1}
TargetSpacingsSparse == {3}
Tolerances == {0, 1, 2}

InitSpacing ==
    /\ IsSeqUpTo(predictions, SpacingPoints, MaxPreds)
    /\ component_type \in ComponentTypes
    /\ pixel_per_mm \in PixelPerMms
    /\ target_spacing \in TargetSpacings
    /\ target_spacing_dense \in TargetSpacingsDense
    /\ target_spacing_sparse \in TargetSpacingsSparse
    /\ tolerance \in Tolerances
    /\ spacing_result = [raised |-> "", spacings |-> <<>>]
    /\ sstep = "input"
    /\ GeomIdle /\ ComplianceIdle /\ ParseIdle /\ OcrIdle /\ AnalyzeIdle

ProcessSpacingCheck ==
    /\ sstep = "input"
    /\ spacing_result' =
          process_spacing_check(predictions, component_type, pixel_per_mm,
                                target_spacing, target_spacing_dense,
                                target_spacing_sparse, tolerance)
    /\ sstep' = "done"
    /\ UNCHANGED <<predictions, component_type, pixel_per_mm, target_spacing,
                   target_spacing_dense, target_spacing_sparse, tolerance,
                   geomVars, complianceVars, parseVars, ocrVars, analyzeVars>>

NextSpacing == ProcessSpacingCheck

SpecSpacing == InitSpacing /\ [][NextSpacing]_vars

(***************************************************************************)
(* SpecSpacingScaled: one call of process_spacing_check on a slab or wall  *)
(* at scales that bring a distance within 0.05 mm of a window edge:        *)
(* sqrt(17) px at 4 px/mm is 1.03 mm and is reported as 1.0 mm.            *)
(***************************************************************************)
ScaledPixelPerMms == {1, 2, 4}
ScaledTargetSpacings == {1, 2}
ScaledTolerances == {0, 1}

InitSpacingScaled ==
    /\ IsSeqUpTo(predictions, SpacingPoints, MaxPreds)
    /\ component_type = "slab_wall"
    /\ pixel_per_mm \in ScaledPixelPerMms
    /\ target_spacing \in ScaledTargetSpacings
    /\ target_spacing_dense \in TargetSpacingsDense
    /\ target_spacing_sparse \in TargetSpacingsSparse
    /\ tolerance \in ScaledTolerances
    /\ spacing_result = [raised |-> "", spacings |-> <<>>]
    /\ sstep = "input"
    /\ GeomIdle /\ ComplianceIdle /\ ParseIdle /\ OcrIdle /\ AnalyzeIdle

SpecSpacingScaled == InitSpacingScaled /\ [][NextSpacing]_vars

(***************************************************************************)
(* SpecSpacingOrder: one call of process_spacing_check on every component  *)
(* type at a positive scale, for comparing lists of predictions that       *)
(* differ in the order of detection only.                                  *)
(***************************************************************************)
OrderPixelPerMms == {1, 2}
OrderTolerances == {1}

InitSpacingOrder ==
    /\ IsSeqUpTo(predictions, SpacingPoints, MaxPreds)
    /\ component_type \in ComponentTypes
    /\ pixel_per_mm \in OrderPixelPerMms
    /\ target_spacing \in TargetSpacings
    /\ target_spacing_dense \in TargetSpacingsDense
    /\ target_spacing_sparse \in TargetSpacingsSparse
    /\ tolerance \in OrderTolerances
    /\ spacing_result = [raised |-> "", spacings |-> <<>>]
    /\ sstep = "input"
    /\ GeomIdle /\ ComplianceIdle /\ ParseIdle /\ OcrIdle /\ AnalyzeIdle

SpecSpacingOrder == InitSpacingOrder /\ [][NextSpacing]_vars

(***************************************************************************)
(* SpecCompliance: one call of check_compliance.                           *)
(***************************************************************************)
Counts == (-MaxCount)..MaxCount

InitCompliance ==
    /\ detected_count \in Counts
    /\ design_total \in Counts
    /\ compliance = [status |-> "", message |-> <<>>]
    /\ cstep = "input"
    /\ GeomIdle /\ SpacingIdle /\ ParseIdle /\ OcrIdle /\ AnalyzeIdle

CheckCompliance ==
    /\ cstep = "input"
    /\ compliance' = check_compliance(detected_count, design_total)
    /\ cstep' = "done"
    /\ UNCHANGED <<detected_count, design_total, geomVars, spacingVars, parseVars, ocrVars, analyzeVars>>

NextCompliance == CheckCompliance

SpecCompliance == InitCompliance /\ [][NextCompliance]_vars

(***************************************************************************)
(* SpecParse: one call of parse_pingfa.  The texts are every text of up to *)
(* MaxTextLen characters of Alphabet, every pair of 3-character words of   *)
(* PairAlphabet with a separator between them, and the examples of the     *)
(* docstring and of the specification.                                     *)
(***************************************************************************)
Alphabet == {"0", "1", "6", "C", "c", "PHI", "phi", " ", "+"}
PairAlphabet == {"0", "1", "6", "C"}
PairTexts ==
    {a \o <<sep>> \o b : a \in [1..3 -> PairAlphabet],
                         b \in [1..3 -> PairAlphabet], sep \in {" ", "+"}}

\* "0C22 4C5 4C22 51C22"
RangeFilterExample ==
    <<"0", "C", "2", "2", " ", "4", "C", "5", " ",
      "4", "C", "2", "2", " ", "5", "1", "C", "2", "2">>

ExampleTexts ==
    { RangeFilterExample,
      <<"4", "C", "2", "5", " ", "8", "C", "2", "2">>,
      <<"4", "C", "2", "5", "+", "8", "C", "2", "2">>,
      <<"4", "phi", "2", "2">>,
      <<"8", "PHI", "2", "0">>,
      <<"1", "2", "C", "2", "5">> }

InitParse ==
    /\ \/ IsSeqUpTo(text, Alphabet, MaxTextLen)
       \/ text \in PairTexts
       \/ text \in ExampleTexts
    /\ rebar_config = <<>>
    /\ pstep = "input"
    /\ GeomIdle /\ SpacingIdle /\ ComplianceIdle /\ OcrIdle /\ AnalyzeIdle

ParsePingfa ==
    /\ pstep = "input"
    /\ rebar_config' = parse_pingfa(text)
    /\ pstep' = "done"
    /\ UNCHANGED <<text, geomVars, spacingVars, complianceVars, ocrVars, analyzeVars>>

NextParse == ParsePingfa

SpecParse == InitParse /\ [][NextParse]_vars

(***************************************************************************)
(* SpecColumnId: one call of parse_column_id.  The texts are every text of *)
(* up to MaxTextLen characters of ColumnAlphabet and the example of the    *)
(* specification; "zhu", "hao", "jie" and "mian" name its four Chinese     *)
(* characters.                                                             *)
(***************************************************************************)
ColumnAlphabet == {"K", "k", "KELVIN", "G", "Z", "z", "a", "1", "2", " "}

\* the column label followed by the section size: "..KZ12..650x600"
LabelExample ==
    <<"zhu", "hao", "K", "Z", "1", "2", "jie", "mian",
      "6", "5", "0", "x", "6", "0", "0">>

InitColumnId ==
    /\ \/ IsSeqUpTo(ocr_text, ColumnAlphabet, MaxTextLen)
       \/ ocr_text = LabelExample
    /\ column_id = None /\ section_size = None
    /\ ostep = "input"
    /\ GeomIdle /\ SpacingIdle /\ ComplianceIdle /\ ParseIdle /\ AnalyzeIdle

ParseColumnId ==
    /\ ostep = "input"
    /\ column_id' = parse_column_id(ocr_text)
    /\ ostep' = "done"
    /\ UNCHANGED <<ocr_text, section_size,
                   geomVars, spacingVars, complianceVars, parseVars,
                   analyzeVars>>

NextColumnId == ParseColumnId

SpecColumnId == InitColumnId /\ [][NextColumnId]_vars

(***************************************************************************)
(* SpecSectionSize: one call of parse_section_size.  The texts are two     *)
(* numbers of 2 to MaxDigits digits with a separator between them, with or *)
(* without a space on either side of it, and the examples.                 *)
(***************************************************************************)
\* t is a number of 2 to MaxDigits digits, a separator and another such
\* number, each side of the separator with or without a space.
IsSizeText(t) ==
    \E m, n \in 2..MaxDigits :
        \E a \in [1..m -> {"1", "2"}], b \in [1..n -> {"1", "2"}] :
            \E sep \in {"x", "X", "times", "*", "+"} :
                \E s1, s2 \in {<<>>, <<" ">>} :
                    t = a \o s1 \o <<sep>> \o s2 \o b

SizeExamples ==
    { LabelExample,
      <<"1", "2", "0", "0", "x", "6", "0", "0", "x", "5", "0", "0">>,
      <<"1", "2", "x", "3", "4", "5", "x", "6", "7", "8">>,
      <<"1", "2", "3", "4", "5", "x", "6", "7", "8", "9", "0">> }

InitSectionSize ==
    /\ \/ IsSizeText(ocr_text)
       \/ ocr_text \in SizeExamples
    /\ column_id = None /\ section_size = None
    /\ ostep = "input"
    /\ GeomIdle /\ SpacingIdle /\ ComplianceIdle /\ ParseIdle /\ AnalyzeIdle

ParseSectionSize ==
    /\ ostep = "input"
    /\ section_size' = parse_section_size(ocr_text)
    /\ ostep' = "done"
    /\ UNCHANGED <<ocr_text, column_id,
                   geomVars, spacingVars, complianceVars, parseVars,
                   analyzeVars>>

NextSectionSize == ParseSectionSize

SpecSectionSize == InitSectionSize /\ [][NextSectionSize]_vars

(***************************************************************************)
(* SpecParseThenCheck: a text is parsed by parse_pingfa, the design total  *)
(* is taken from the result by get_design_total and a detected count is    *)
(* compared with it by check_compliance.                                   *)
(***************************************************************************)
DetectedCounts == {0, 1, 12}

InitParseThenCheck ==
    /\ \/ IsSeqUpTo(text, Alphabet, MaxTextLen)
       \/ text \in ExampleTexts
    /\ rebar_config = <<>>
    /\ pstep = "input"
    /\ detected_count \in DetectedCounts
    /\ design_total = 0
    /\ compliance = [status |-> "", message |-> <<>>]
    /\ cstep = "idle"
    /\ GeomIdle /\ SpacingIdle /\ OcrIdle /\ AnalyzeIdle

GetDesignTotal ==
    /\ pstep = "done" /\ cstep = "idle"
    /\ design_total' = get_design_total(rebar_config)
    /\ cstep' = "input"
    /\ UNCHANGED <<detected_count, compliance, parseVars,
                   geomVars, spacingVars, ocrVars, analyzeVars>>

NextParseThenCheck == ParsePingfa \/ GetDesignTotal \/ CheckCompliance

SpecParseThenCheck == InitParseThenCheck /\ [][NextParseThenCheck]_vars

(***************************************************************************)
(* SpecAnalyze: MaxRequests requests to /analyze handled by concurrent     *)
(* threads.  A handler checks the upload, writes its temporary file, runs  *)
(* the try block, and in the finally block tests that the file exists and  *)
(* removes it; the threads interleave between these steps.                 *)
(***************************************************************************)
Requests == 1..MaxRequests

AnalyzeModes == {"spacing", "column"}
AnalyzeComponentTypes == {"", "slab_wall", "column"}
AnalyzeScales == {0, 1}
AnalyzePredictions == {<<>>, <<<<0, 0>>, <<2, 0>>>>}

InitAnalyze ==
    /\ handler_pc = [r \in Requests |-> "start"]
    /\ temp_path = [r \in Requests |-> 0]
    /\ response = [r \in Requests |-> 0]
    /\ files = {}
    /\ GeomIdle /\ SpacingIdle /\ ComplianceIdle /\ ParseIdle /\ OcrIdle

\* The request has no image or no file name and is answered 400.
AnalyzeReject(r) ==
    /\ handler_pc[r] = "start"
    /\ handler_pc' = [handler_pc EXCEPT ![r] = "returned"]
    /\ response' = [response EXCEPT ![r] = 400]
    /\ UNCHANGED <<temp_path, files>>
    /\ UNCHANGED <<geomVars, spacingVars, complianceVars, parseVars, ocrVars>>

\* The image is read and uploaded, and the temporary file is written.
AnalyzeWriteTemp(r) ==
    /\ handler_pc[r] = "start"
    /\ \E u \in TempPaths({temp_path[q] : q \in Requests} \ {0}) :
          /\ temp_path' = [temp_path EXCEPT ![r] = u]
          /\ files' = files \cup {u}
    /\ handler_pc' = [handler_pc EXCEPT ![r] = "try"]
    /\ UNCHANGED response
    /\ UNCHANGED <<geomVars, spacingVars, complianceVars, parseVars, ocrVars>>

\* The try block: the response is 200, or 500 from the except clause.
AnalyzeTry(r) ==
    /\ handler_pc[r] = "try"
    /\ \E detected \in BOOLEAN, mode \in AnalyzeModes,
          ctype \in AnalyzeComponentTypes, ppm \in AnalyzeScales,
          preds \in AnalyzePredictions :
          response' = [response EXCEPT ![r] =
                          IF TryOutcome(detected, mode, ctype, ppm, preds) = "ok"
                          THEN 200 ELSE 500]
    /\ handler_pc' = [handler_pc EXCEPT ![r] = "finally"]
    /\ UNCHANGED <<temp_path, files>>
    /\ UNCHANGED <<geomVars, spacingVars, complianceVars, parseVars, ocrVars>>

\* finally: if os.path.exists(temp_path)
AnalyzeFinallyExists(r) ==
    /\ handler_pc[r] = "finally"
    /\ handler_pc' = [handler_pc EXCEPT ![r] =
                          IF temp_path[r] \in files THEN "remove" ELSE "returned"]
    /\ UNCHANGED <<temp_path, response, files>>
    /\ UNCHANGED <<geomVars, spacingVars, complianceVars, parseVars, ocrVars>>

\* finally: os.remove(temp_path), and the handler returns.
AnalyzeFinallyRemove(r) ==
    /\ handler_pc[r] = "remove"
    /\ files' = files \ {temp_path[r]}
    /\ handler_pc' = [handler_pc EXCEPT ![r] = "returned"]
    /\ UNCHANGED <<temp_path, response>>
    /\ UNCHANGED <<geomVars, spacingVars, complianceVars, parseVars, ocrVars>>

NextAnalyze ==
    \E r \in Requests :
        \/ AnalyzeReject(r)
        \/ AnalyzeWriteTemp(r)
        \/ AnalyzeTry(r)
        \/ AnalyzeFinallyExists(r)
        \/ AnalyzeFinallyRemove(r)

SpecAnalyze == InitAnalyze /\ [][NextAnalyze]_vars

(***************************************************************************)
(* Claims about convex_hull.                                               *)
(***************************************************************************)
\* The pairs <<a, b>> of cyclically consecutive vertices of a polygon.
CyclicPairs(poly) ==
    {<<poly[i], poly[(i % Len(poly)) + 1]>> : i \in 1..Len(poly)}

\* The triples of cyclically consecutive vertices of a polygon.
CyclicTriples(poly) ==
    {<<poly[i], poly[(i % Len(poly)) + 1], poly[((i + 1) % Len(poly)) + 1]>> :
        i \in 1..Len(poly)}

\* C1 (hull convexity): every input point lies inside or on the boundary of
\* convex_hull(points): for every pair (a, b) of cyclically consecutive
\* vertices of the output and every input point p, cross_product(a, b, p) >= 0;
\* the same holds of every detection center and the outer hoop of
\* generate_hoop_path.
C1_HullContainsInput ==
    /\ gstep \in {"hull", "rehull"} =>
          \A e \in CyclicPairs(hull) :
              \A i \in 1..Len(points) :
                  cross_product(e[1], e[2], points[i]) >= 0
    /\ gstep = "hoop" =>
          \A e \in CyclicPairs(hoop.outer_hoop) :
              \A i \in 1..Len(points) :
                  cross_product(<<e[1].x, e[1].y>>, <<e[2].x, e[2].y>>,
                                points[i]) >= 0

\* A hull of at least 3 vertices with an input point strictly inside it.
C1_Witness ==
    /\ gstep = "hull"
    /\ Len(hull) >= 3
    /\ \E i \in 1..Len(points) :
          \A e \in CyclicPairs(hull) : cross_product(e[1], e[2], points[i]) > 0

\* C2 (hull minimality and orientation): whenever convex_hull returns at least
\* 3 vertices, every three cyclically consecutive vertices make a strictly left
\* turn (cross_product > 0).
C2_StrictLeftTurns ==
    (gstep \in {"hull", "rehull"} /\ Len(hull) >= 3) =>
        \A t \in CyclicTriples(hull) : cross_product(t[1], t[2], t[3]) > 0

\* A hull of 4 vertices computed from an input that has a point collinear with
\* two of them.
C2_Witness ==
    /\ gstep = "hull"
    /\ Len(hull) >= 3
    /\ \E i \in 1..Len(points) :
          /\ points[i] \notin ToSet(hull)
          /\ \E e \in CyclicPairs(hull) : cross_product(e[1], e[2], points[i]) = 0

\* C3 (hull idempotence): convex_hull(convex_hull(points)) equals
\* convex_hull(points), same vertices in the same order, degenerate inputs
\* included.
C3_Idempotent ==
    gstep = "rehull" => rehull = hull

\* The second application has run on a hull that the first one reduced and
\* reordered.
C3_Witness ==
    /\ gstep = "rehull"
    /\ Len(hull) >= 3
    /\ hull # points
    /\ Len(hull) < Len(points)

(***************************************************************************)
(* Claims about process_spacing_check.                                     *)
(***************************************************************************)
\* The squared pixel distance between the end points of a returned segment.
SegmentD2(seg) ==
    (seg.end.x - seg.start.x) * (seg.end.x - seg.start.x)
    + (seg.end.y - seg.start.y) * (seg.end.y - seg.start.y)

\* lo <= sqrt(d2) / ppm <= hi, for ppm > 0, decided on squares.
InWindow(d2, ppm, lo, hi) ==
    /\ (lo * ppm <= 0 \/ lo * ppm * lo * ppm <= d2)
    /\ hi * ppm >= 0
    /\ d2 <= hi * ppm * hi * ppm

Segments == spacing_result.spacings

\* C4 (slab/wall classification): with component_type 'slab_wall' and
\* pixel_per_mm > 0 the call returns, and every segment whose mm distance
\* lies in [target_spacing - tolerance, target_spacing + tolerance], end
\* points included, has status 'pass' and every other segment 'fail'.
C4_SlabWallWindow ==
    (sstep = "done" /\ component_type = "slab_wall" /\ pixel_per_mm > 0) =>
        /\ spacing_result.raised = ""
        /\ \A i \in 1..Len(Segments) :
              Segments[i].status =
                  IF InWindow(SegmentD2(Segments[i]), pixel_per_mm,
                              target_spacing - tolerance,
                              target_spacing + tolerance)
                  THEN "pass" ELSE "fail"

\* A slab/wall result with a segment exactly target_spacing + tolerance long
\* and one exactly target_spacing - tolerance long, for 0 < tolerance <
\* target_spacing.
C4_Witness ==
    /\ sstep = "done" /\ component_type = "slab_wall" /\ pixel_per_mm > 0
    /\ tolerance > 0 /\ target_spacing - tolerance > 0
    /\ Len(Segments) = 2
    /\ \E i, j \in 1..Len(Segments) :
          /\ SegmentD2(Segments[i]) =
                 ((target_spacing + tolerance) * pixel_per_mm)
                 * ((target_spacing + tolerance) * pixel_per_mm)
          /\ SegmentD2(Segments[j]) =
                 ((target_spacing - tolerance) * pixel_per_mm)
                 * ((target_spacing - tolerance) * pixel_per_mm)
          /\ Segments[i].status = "pass"
          /\ Segments[j].status = "pass"

\* C5 (dense-zone priority): with component_type 'beam_column' a segment is
\* 'pass_dense' iff its mm distance is within tolerance of
\* target_spacing_dense, otherwise 'pass_sparse' iff it is within tolerance of
\* target_spacing_sparse, otherwise 'fail'; a distance inside both windows is
\* 'pass_dense'.
C5_DenseZonePriority ==
    (sstep = "done" /\ component_type = "beam_column" /\ pixel_per_mm > 0) =>
        /\ spacing_result.raised = ""
        /\ \A i \in 1..Len(Segments) :
              LET d2 == SegmentD2(Segments[i])
                  inDense == InWindow(d2, pixel_per_mm,
                                      target_spacing_dense - tolerance,
                                      target_spacing_dense + tolerance)
                  inSparse == InWindow(d2, pixel_per_mm,
                                       target_spacing_sparse - tolerance,
                                       target_spacing_sparse + tolerance)
              IN Segments[i].status =
                     IF inDense THEN "pass_dense"
                     ELSE IF inSparse THEN "pass_sparse"
                     ELSE "fail"

\* A beam/column segment that lies in both windows and is 'pass_dense', next
\* to one that is 'pass_sparse'.
C5_Witness ==
    /\ sstep = "done" /\ component_type = "beam_column" /\ pixel_per_mm > 0
    /\ \E i, j \in 1..Len(Segments) :
          /\ InWindow(SegmentD2(Segments[i]), pixel_per_mm,
                      target_spacing_dense - tolerance,
                      target_spacing_dense + tolerance)
          /\ InWindow(SegmentD2(Segments[i]), pixel_per_mm,
                      target_spacing_sparse - tolerance,
                      target_spacing_sparse + tolerance)
          /\ Segments[i].status = "pass_dense"
          /\ Segments[j].status = "pass_sparse"

\* C9 (unrecognized component type): with at least 2 predictions,
\* pixel_per_mm > 0 and a component_type other than 'slab_wall' and
\* 'beam_column', the call raises no error and returns one segment per
\* adjacent sorted pair, each with index, start, end and the two distances
\* and no 'status' key.
C9_UnrecognizedTypeReturnsSegments ==
    (/\ sstep = "done"
     /\ Len(predictions) >= 2
     /\ pixel_per_mm > 0
     /\ component_type \notin {"slab_wall", "beam_column"}) =>
        /\ spacing_result.raised = ""
        /\ Len(Segments) = Len(predictions) - 1
        /\ \A i \in 1..Len(Segments) :
              DOMAIN Segments[i] =
                  {"index", "start", "end", "px_distance", "mm_distance"}

\* C10 (spacing not computable): with fewer than 2 predictions or
\* pixel_per_mm <= 0 the call returns the empty list and raises nothing, for
\* every component_type and every target and tolerance.
C10_NotComputableIsEmpty ==
    (sstep = "done" /\ (Len(predictions) < 2 \/ pixel_per_mm <= 0)) =>
        spacing_result = [raised |-> "", spacings |-> <<>>]

\* The call has returned the empty list for 2 or more predictions of an
\* unrecognized component type because the scale is 0.
C10_Witness ==
    /\ sstep = "done"
    /\ Len(predictions) >= 2
    /\ pixel_per_mm = 0
    /\ component_type = "column"
    /\ spacing_result = [raised |-> "", spacings |-> <<>>]

(***************************************************************************)
(* Claims about check_compliance.                                          *)
(***************************************************************************)
\* C6 (compliance totality): the status is one of PASS, FAIL, WARNING and
\* UNKNOWN, and it is UNKNOWN if and only if design_total = 0.
C6_ComplianceTotality ==
    cstep = "done" =>
        /\ compliance.status \in {"PASS", "FAIL", "WARNING", "UNKNOWN"}
        /\ (compliance.status = "UNKNOWN") <=> (design_total = 0)

\* check_compliance(0, 0) has returned UNKNOWN.
C6_Witness ==
    /\ cstep = "done"
    /\ detected_count = 0 /\ design_total = 0
    /\ compliance.status = "UNKNOWN"

\* C7 (three-way comparison): for design_total # 0 the status is PASS iff
\* detected_count = design_total, WARNING iff detected_count > design_total
\* and FAIL iff detected_count < design_total.
C7_ThreeWayComparison ==
    (cstep = "done" /\ design_total # 0) =>
        /\ (compliance.status = "PASS") <=> (detected_count = design_total)
        /\ (compliance.status = "WARNING") <=> (detected_count > design_total)
        /\ (compliance.status = "FAIL") <=> (detected_count < design_total)

\* A deficit against a nonzero design total has been reported as FAIL.
C7_Witness ==
    /\ cstep = "done"
    /\ design_total # 0
    /\ detected_count < design_total
    /\ compliance.status = "FAIL"

(***************************************************************************)
(* Claims about parse_pingfa.                                              *)
(***************************************************************************)
\* The characters the claim's pattern is made of.
PatternDigits == {"0", "1", "2", "3", "4", "5", "6", "7", "8", "9"}
PatternSpaces == {" ", "\t", "\n"}
PatternMarks == {"C", "c", "PHI", "phi"}

\* t[s..e] reads <digits><optional whitespace><mark><optional whitespace>
\* <digits> with the diameter's digits taken to the end of their run; a is the
\* last digit of the count and d the first digit of the diameter.
PatternSplit(t, s, a, d, e) ==
    /\ s <= a /\ a < d - 1 /\ d <= e /\ e <= Len(t)
    /\ \A k \in s..a : t[k] \in PatternDigits
    /\ \E b \in (a + 1)..(d - 1) :
          /\ t[b] \in PatternMarks
          /\ \A k \in ((a + 1)..(d - 1)) \ {b} : t[k] \in PatternSpaces
    /\ \A k \in d..e : t[k] \in PatternDigits
    /\ (e = Len(t) \/ t[e + 1] \notin PatternDigits)

\* The match that starts at s, as <<a, d, e>>; <<>> if none starts there.
PatternFrom(t, s) ==
    LET splits == {x \in (s..Len(t)) \X (s..Len(t)) \X (s..Len(t)) :
                      PatternSplit(t, s, x[1], x[2], x[3])}
    IN IF splits = {} THEN <<>> ELSE CHOOSE x \in splits : TRUE

\* The starts of the non-overlapping matches, found left to right: a start is
\* taken iff no taken match before it reaches it.
PatternStarts(t) ==
    LET starts == {s \in 1..Len(t) : PatternFrom(t, s) # <<>>}
    IN CHOOSE X \in SUBSET starts :
          \A s \in starts :
              (s \in X) <=>
                  ~\E r \in X : r < s /\ s <= PatternFrom(t, r)[3]

RECURSIVE InRangeMatches(_, _)
\* The matches that start in X, in text order, that have count in 1..50 and
\* diameter in 6..50.
InRangeMatches(t, X) ==
    IF X = {} THEN <<>>
    ELSE LET s == Min(X)
             m == PatternFrom(t, s)
             count == ToInt(SubSeq(t, s, m[1]))
             diameter == ToInt(SubSeq(t, m[2], m[3]))
         IN (IF count \in 1..50 /\ diameter \in 6..50
             THEN <<[count |-> count, diameter |-> diameter]>>
             ELSE <<>>)
            \o InRangeMatches(t, X \ {s})

\* C8 (parser range filter): parse_pingfa(text) is, in text order, exactly the
\* non-overlapping matches of <count><whitespace?><C, PHI or phi, either
\* case><whitespace?><diameter> with count in 1..50 and diameter in 6..50; a
\* match out of range is dropped and later matches are still returned, so
\* "0C22 4C5 4C22 51C22" yields only count 4, diameter 22.
C8_ParserRangeFilter ==
    pstep = "done" =>
        /\ rebar_config = InRangeMatches(text, PatternStarts(text))
        /\ \A k \in 1..Len(rebar_config) :
              /\ rebar_config[k].count \in 1..50
              /\ rebar_config[k].diameter \in 6..50
        /\ text = RangeFilterExample =>
              rebar_config = <<[count |-> 4, diameter |-> 22]>>

\* The text of the example has been parsed: four matches, the third one kept.
C8_Witness ==
    /\ pstep = "done"
    /\ text = RangeFilterExample
    /\ Cardinality(PatternStarts(text)) = 4
    /\ Len(rebar_config) = 1

(***************************************************************************)
(* Claims about generate_hoop_path and about the inputs convex_hull does   *)
(* not reduce.                                                             *)
(***************************************************************************)
\* The outer hoop as a list of <<x, y>>.
OuterHoop == [i \in 1..Len(hoop.outer_hoop) |->
                 <<hoop.outer_hoop[i].x, hoop.outer_hoop[i].y>>]

\* The detections that get a tie: those whose center equals no hoop vertex,
\* in detection order.
OffHoop ==
    LET vertices == {<<hoop.outer_hoop[i].x, hoop.outer_hoop[i].y>> :
                        i \in 1..Len(hoop.outer_hoop)}
    IN SelectSeq(points, LAMBDA p : p \notin vertices)

PairwiseDistinct(s) == \A i, j \in 1..Len(s) : i # j => s[i] # s[j]

AllCollinear(s) ==
    \A i, j, k \in 1..Len(s) :
        (i < j /\ j < k) => cross_product(s[i], s[j], s[k]) = 0

\* C11 (hoop path on insufficient input): with fewer than 3 detections
\* generate_hoop_path returns an empty outer_hoop and an empty inner_ties.
C11_TooFewDetectionsIsEmpty ==
    (gstep = "hoop" /\ Len(points) < 3) =>
        hoop = [outer_hoop |-> <<>>, inner_ties |-> <<>>]

\* generate_hoop_path has returned for 2 detections at different centers.
C11_Witness ==
    /\ gstep = "hoop"
    /\ Len(points) = 2 /\ points[1] # points[2]
    /\ hoop.outer_hoop = <<>> /\ hoop.inner_ties = <<>>

\* C12 (tie orientation): with (minX, maxX, minY, maxY) the bounding box of
\* the hoop and (cx, cy) its center, the tie of an interior point p is
\* horizontal, from (minX, p.y) to (maxX, p.y), iff |p.x - cx| > |p.y - cy|,
\* and otherwise vertical, from (p.x, minY) to (p.x, maxY); equal distances
\* give a vertical tie.  (cx and cy are halves: both sides are doubled.)
C12_TieOrientation ==
    (gstep = "hoop" /\ Len(points) >= 3) =>
        LET outer == OuterHoop
            off == OffHoop
            minX == Min({outer[i][1] : i \in 1..Len(outer)})
            maxX == Max({outer[i][1] : i \in 1..Len(outer)})
            minY == Min({outer[i][2] : i \in 1..Len(outer)})
            maxY == Max({outer[i][2] : i \in 1..Len(outer)})
        IN /\ Len(hoop.inner_ties) = Len(off)
           /\ \A k \in 1..Len(off) :
                 LET px == off[k][1]
                     py == off[k][2]
                     dx2 == Abs(2 * px - (minX + maxX))
                     dy2 == Abs(2 * py - (minY + maxY))
                     tie == hoop.inner_ties[k]
                 IN /\ (tie.type = "horizontal") <=> (dx2 > dy2)
                    /\ (tie.type = "vertical") <=> (dx2 <= dy2)
                    /\ tie.type = "horizontal" =>
                          /\ tie.from = [x |-> minX, y |-> py]
                          /\ tie.to = [x |-> maxX, y |-> py]
                    /\ tie.type = "vertical" =>
                          /\ tie.from = [x |-> px, y |-> minY]
                          /\ tie.to = [x |-> px, y |-> maxY]

\* A point strictly inside a hoop of 3 or more vertices, as far from the
\* center in x as in y, has got a vertical tie.
C12_Witness ==
    /\ gstep = "hoop"
    /\ Len(OuterHoop) >= 3
    /\ Len(OffHoop) = 1
    /\ \A e \in CyclicPairs(OuterHoop) :
          cross_product(e[1], e[2], OffHoop[1]) > 0
    /\ hoop.inner_ties[1].type = "vertical"
    /\ hoop.inner_ties[1].from.x = OffHoop[1][1]
    /\ hoop.inner_ties[1].from.y # hoop.inner_ties[1].to.y

\* A list of 3 or more points that is fixed by the distinct points of pts
\* alone: they come in ascending order and the smallest one is repeated until
\* the list has 3 elements.
RECURSIVE PadToThree(_)
PadToThree(s) == IF Len(s) >= 3 \/ s = <<>> THEN s ELSE PadToThree(<<s[1]>> \o s)

CanonicalList(pts) == PadToThree(SortedSet(ToSet(pts)))

\* C13 as stated (hull input is a set): convex_hull's output depends only on
\* the set of distinct input points, for lists of any length.  All lists with
\* the same distinct points then give the output of the sorted list of these
\* points, which is one of them.
C13_OutputDependsOnlyOnSet ==
    gstep = "hull" => hull = convex_hull(SortedSet(ToSet(points)))

\* C13 as amended: two lists of at least 3 points each with the same distinct
\* points give identical outputs.  Every such list gives the output of
\* CanonicalList, a list of that kind that the distinct points determine.
C13_OutputDependsOnlyOnSetFromThree ==
    (gstep = "hull" /\ Len(points) >= 3) =>
        /\ Len(CanonicalList(points)) >= 3
        /\ ToSet(CanonicalList(points)) = ToSet(points)
        /\ hull = convex_hull(CanonicalList(points))

\* The hull of a list with a repeated point, not in ascending order, that is
\* not reduced to its input.
C13_Witness ==
    /\ gstep = "hull"
    /\ Len(points) >= 3
    /\ ~PairwiseDistinct(points)
    /\ points # SortedSet(ToSet(points))
    /\ Cardinality(ToSet(points)) >= 3
    /\ hull = convex_hull(CanonicalList(points))

\* C17 as stated (degenerate hull input): a list with fewer than 3 distinct
\* points, whatever its length, is returned verbatim.
C17_FewDistinctPointsVerbatim ==
    (gstep = "hull" /\ Cardinality(ToSet(points)) < 3) => hull = points

\* C17 as amended: a list of fewer than 3 points is returned verbatim; a list
\* of 3 or more points with fewer than 3 distinct ones gives its distinct
\* points, once each, in ascending (x, y) order.
C17_FewPointsVerbatimElseDistinctSorted ==
    /\ (gstep = "hull" /\ Len(points) < 3) => hull = points
    /\ (gstep = "hull" /\ Len(points) >= 3 /\ Cardinality(ToSet(points)) < 3) =>
          /\ ToSet(hull) = ToSet(points)
          /\ Len(hull) = Cardinality(ToSet(points))
          /\ \A i \in 1..(Len(hull) - 1) : TupleLess(hull[i], hull[i + 1])

\* A list of 3 or more points, 2 of them distinct, given in descending order.
C17_Witness ==
    /\ gstep = "hull"
    /\ Len(points) >= 3
    /\ Cardinality(ToSet(points)) = 2
    /\ TupleLess(points[2], points[1])
    /\ Len(hull) = 2

\* A convex polygon: 3 or more pairwise distinct vertices, a strict left turn
\* at each.
IsConvexPolygon(poly) ==
    /\ Len(poly) >= 3
    /\ PairwiseDistinct(poly)
    /\ \A t \in CyclicTriples(poly) : cross_product(t[1], t[2], t[3]) > 0

\* C19 as stated (outer hoop is a polygon or empty): the outer hoop is empty
\* or a convex polygon of 3 or more pairwise distinct vertices, never a point
\* or a 2-point segment.
C19_OuterHoopEmptyOrPolygon ==
    gstep = "hoop" => (OuterHoop = <<>> \/ IsConvexPolygon(OuterHoop))

\* C19 as amended: the outer hoop is empty for fewer than 3 detections and a
\* convex polygon of 3 or more pairwise distinct vertices for 3 or more
\* detections whose centers are not all on one line; for 3 or more detections
\* whose centers are all on one line it is the 1 or 2 end points of the
\* centers, in ascending order.
C19_OuterHoopEmptyPolygonOrEnds ==
    gstep = "hoop" =>
        LET outer == OuterHoop
        IN /\ Len(points) < 3 => outer = <<>>
           /\ (Len(points) >= 3 /\ ~AllCollinear(points)) =>
                 IsConvexPolygon(outer)
           /\ (Len(points) >= 3 /\ AllCollinear(points)) =>
                 /\ Len(outer) \in {1, 2}
                 /\ Len(outer) = 1 <=> Cardinality(ToSet(points)) = 1
                 /\ ToSet(outer) \subseteq ToSet(points)
                 /\ \A i \in 1..Len(points) :
                       /\ ~TupleLess(points[i], outer[1])
                       /\ ~TupleLess(outer[Len(outer)], points[i])

\* 3 or more detections with 3 distinct centers on one line have got a hoop of
\* 2 points.
C19_Witness ==
    /\ gstep = "hoop"
    /\ Cardinality(ToSet(points)) >= 3
    /\ AllCollinear(points)
    /\ Len(OuterHoop) = 2

C16_MessageEmbedsInputsAndSignedDifference ==
    cstep = "done" =>
        {detected_count, design_total, detected_count - design_total}
            \subseteq ToSet(compliance.message.numbers)

\* C16 as amended: the UNKNOWN message embeds no number; the PASS message
\* embeds detected_count and design_total and no difference; the WARNING
\* message embeds both and the surplus detected_count - design_total; the
\* FAIL message embeds both and the deficit design_total - detected_count, a
\* positive number.
C16_MessageEmbedsWhatItsStatusReports ==
    cstep = "done" =>
        LET numbers == compliance.message.numbers
        IN /\ compliance.status = "UNKNOWN" => numbers = <<>>
           /\ compliance.status = "PASS" =>
                 numbers = <<detected_count, design_total>>
           /\ compliance.status = "WARNING" =>
                 numbers = <<detected_count, design_total,
                             detected_count - design_total>>
           /\ compliance.status = "FAIL" =>
                 /\ numbers = <<detected_count, design_total,
                                design_total - detected_count>>
                 /\ numbers[3] > 0

\* A deficit of 2 has been reported: the message holds 2, not -2.
C16_Witness ==
    /\ cstep = "done"
    /\ compliance.status = "FAIL"
    /\ detected_count - design_total = -2
    /\ compliance.message.numbers[3] = 2

(***************************************************************************)
(* Claims about the order of the segments of process_spacing_check.        *)
(***************************************************************************)
\* The centers the segments run through: the start of each and the end of
\* the last.
SegmentCenters ==
    IF Segments = <<>> THEN <<>>
    ELSE [i \in 1..(Len(Segments) + 1) |->
             IF i <= Len(Segments)
             THEN <<Segments[i].start.x, Segments[i].start.y>>
             ELSE <<Segments[i - 1].end.x, Segments[i - 1].end.y>>]

Occurrences(s, e) == Cardinality({i \in 1..Len(s) : s[i] = e})

\* 1 when the x range of the centers is at least their y range, else 2.
PrimaryAxis(centers) ==
    LET xs == {centers[i][1] : i \in 1..Len(centers)}
        ys == {centers[i][2] : i \in 1..Len(centers)}
    IN IF Max(xs) - Min(xs) >= Max(ys) - Min(ys) THEN 1 ELSE 2

\* C18 (spacing segment ordering): for n >= 2 predictions and
\* pixel_per_mm > 0 the call returns exactly n - 1 segments; the segment at
\* position i has index i (from 0) and ends where the next one starts; the
\* centers they run through are the prediction centers, each as often as it
\* was detected, ascending in x when the x range is at least the y range and
\* ascending in y otherwise.
C18_SegmentOrdering ==
    (sstep = "done" /\ Len(predictions) >= 2 /\ pixel_per_mm > 0) =>
        /\ spacing_result.raised = ""
        /\ Len(Segments) = Len(predictions) - 1
        /\ \A i \in 1..Len(Segments) : Segments[i].index = i - 1
        /\ \A i \in 1..(Len(Segments) - 1) : Segments[i].end = Segments[i + 1].start
        /\ \A p \in ToSet(predictions) \cup ToSet(SegmentCenters) :
              Occurrences(SegmentCenters, p) = Occurrences(predictions, p)
        /\ \A i \in 1..(Len(SegmentCenters) - 1) :
              SegmentCenters[i][PrimaryAxis(predictions)]
                  <= SegmentCenters[i + 1][PrimaryAxis(predictions)]

(***************************************************************************)
(* Claims about parse_column_id and parse_section_size.                    *)
(***************************************************************************)
\* The letters of {K, G, Z}, either case.
ClaimedLetters == {"K", "G", "Z", "k", "g", "z"}

\* t[i..j] is one or more claimed letters, then an optional Z, then one or
\* more digits.
IsClaimedColumnId(t, i, j) ==
    \E a \in (i + 1)..j : \E b \in {a, a + 1} :
        /\ \A k \in i..(a - 1) : t[k] \in ClaimedLetters
        /\ b = a + 1 => t[a] \in {"Z", "z"}
        /\ b <= j
        /\ \A k \in b..j : t[k] \in PatternDigits

\* Upper-casing of the claimed letters; digits stay.
ClaimedUpper(sub) ==
    [k \in 1..Len(sub) |->
        CASE sub[k] = "k" -> "K" [] sub[k] = "g" -> "G" [] sub[k] = "z" -> "Z"
          [] OTHER -> sub[k]]

\* The places <<i, j>> of the claimed substrings of the text.
ClaimedColumnIds ==
    {ij \in (1..Len(ocr_text)) \X (1..Len(ocr_text)) :
        ij[1] < ij[2] /\ IsClaimedColumnId(ocr_text, ij[1], ij[2])}

\* C14 (column id parsing): parse_column_id returns None exactly when the
\* text has no letter of {K, G, Z, k, g, z} immediately followed by a digit,
\* and otherwise the upper-cased leftmost substring made of one or more such
\* letters, an optional Z and one or more digits (the longest one that
\* starts there).
C14_ColumnIdParsing ==
    ostep = "done" =>
        /\ column_id = None <=>
              ~\E i \in 1..(Len(ocr_text) - 1) :
                  ocr_text[i] \in ClaimedLetters /\ ocr_text[i + 1] \in PatternDigits
        /\ column_id # None =>
              \E ij \in ClaimedColumnIds :
                  /\ \A other \in ClaimedColumnIds :
                        \/ ij[1] < other[1]
                        \/ ij[1] = other[1] /\ other[2] <= ij[2]
                  /\ column_id.value = ClaimedUpper(SubSeq(ocr_text, ij[1], ij[2]))

\* The places where a whole number of the text stands: <<i, j>> with digits
\* from i to j and no digit before i or after j.
WholeNumbers(t) ==
    {ij \in (1..Len(t)) \X (1..Len(t)) :
        /\ ij[1] <= ij[2]
        /\ \A k \in ij[1]..ij[2] : t[k] \in PatternDigits
        /\ ij[1] = 1 \/ t[ij[1] - 1] \notin PatternDigits
        /\ ij[2] = Len(t) \/ t[ij[2] + 1] \notin PatternDigits}

\* The whole 3- or 4-digit numbers of the text.
SizeNumbersOf(t) == {ij \in WholeNumbers(t) : ij[2] - ij[1] + 1 \in {3, 4}}

\* Only one of x, X, the multiplication sign and *, possibly with whitespace
\* around it, stands between the numbers at w and at h.
SeparatedBySizeMark(t, w, h) ==
    /\ w[2] < h[1]
    /\ \E m \in (w[2] + 1)..(h[1] - 1) :
          /\ t[m] \in {"x", "X", "times", "*"}
          /\ \A k \in ((w[2] + 1)..(h[1] - 1)) \ {m} : t[k] \in PatternSpaces

\* The pairs of whole 3- or 4-digit numbers with a size mark between them.
ClaimedSizePairs(t) ==
    {wh \in SizeNumbersOf(t) \X SizeNumbersOf(t) :
        SeparatedBySizeMark(t, wh[1], wh[2])}

\* C15 (section size parsing): parse_section_size returns None when the text
\* has no two integers of 3 to 4 digits separated by one of x, X, the
\* multiplication sign and *, and otherwise the values of the first such
\* pair; each returned value is that of a whole 3- or 4-digit number of the
\* text.
C15_SectionSizeParsing ==
    ostep = "done" =>
        LET pairs == ClaimedSizePairs(ocr_text)
        IN /\ pairs = {} => section_size = None
           /\ pairs # {} =>
                 \E wh \in pairs :
                     /\ \A other \in pairs : wh[1][1] <= other[1][1]
                     /\ section_size =
                            Some(<<ToInt(SubSeq(ocr_text, wh[1][1], wh[1][2])),
                                   ToInt(SubSeq(ocr_text, wh[2][1], wh[2][2]))>>)
           /\ section_size # None =>
                 \A k \in 1..2 : \E ij \in SizeNumbersOf(ocr_text) :
                     section_size.value[k] = ToInt(SubSeq(ocr_text, ij[1], ij[2]))

(***************************************************************************)
(* Claims about where the ties of generate_hoop_path end.                  *)
(***************************************************************************)
\* q lies on the closed segment from a to b.
OnSegment(q, a, b) ==
    /\ cross_product(a, b, q) = 0
    /\ Min({a[1], b[1]}) <= q[1] /\ q[1] <= Max({a[1], b[1]})
    /\ Min({a[2], b[2]}) <= q[2] /\ q[2] <= Max({a[2], b[2]})

\* q lies on an edge of the polygon.
OnPolygonBoundary(q, poly) ==
    \E e \in CyclicPairs(poly) : OnSegment(q, e[1], e[2])

\* q lies on a side of the bounding box of the polygon.
OnBoundingBox(q, poly) ==
    LET minX == Min({poly[i][1] : i \in 1..Len(poly)})
        maxX == Max({poly[i][1] : i \in 1..Len(poly)})
        minY == Min({poly[i][2] : i \in 1..Len(poly)})
        maxY == Max({poly[i][2] : i \in 1..Len(poly)})
    IN /\ minX <= q[1] /\ q[1] <= maxX
       /\ minY <= q[2] /\ q[2] <= maxY
       /\ q[1] \in {minX, maxX} \/ q[2] \in {minY, maxY}

TieFrom(k) == <<hoop.inner_ties[k].from.x, hoop.inner_ties[k].from.y>>

TieTo(k) == <<hoop.inner_ties[k].to.x, hoop.inner_ties[k].to.y>>

\* C21 as stated (ties connect to the hull boundary): every tie passes
\* through the point it was generated for, and both of its end points lie on
\* the boundary of the outer hoop polygon.
C21_TiesEndOnHoopBoundary ==
    gstep = "hoop" =>
        LET off == OffHoop
            outer == OuterHoop
        IN \A k \in 1..Len(hoop.inner_ties) :
              /\ k <= Len(off)
              /\ OnSegment(off[k], TieFrom(k), TieTo(k))
              /\ OnPolygonBoundary(TieFrom(k), outer)
              /\ OnPolygonBoundary(TieTo(k), outer)

\* C21 as amended: every tie passes through the point it was generated for,
\* and its end points lie on opposite sides of the bounding box of the outer
\* hoop: left and right for a horizontal tie, bottom and top for a vertical
\* one.
C21_TiesEndOnHoopBoundingBox ==
    gstep = "hoop" =>
        LET off == OffHoop
            outer == OuterHoop
        IN \A k \in 1..Len(hoop.inner_ties) :
              /\ k <= Len(off)
              /\ OnSegment(off[k], TieFrom(k), TieTo(k))
              /\ OnBoundingBox(TieFrom(k), outer)
              /\ OnBoundingBox(TieTo(k), outer)
              /\ hoop.inner_ties[k].type = "horizontal" =>
                    /\ TieFrom(k)[1] = Min({outer[i][1] : i \in 1..Len(outer)})
                    /\ TieTo(k)[1] = Max({outer[i][1] : i \in 1..Len(outer)})
              /\ hoop.inner_ties[k].type = "vertical" =>
                    /\ TieFrom(k)[2] = Min({outer[i][2] : i \in 1..Len(outer)})
                    /\ TieTo(k)[2] = Max({outer[i][2] : i \in 1..Len(outer)})

\* The tie of a point strictly inside a hoop of 3 or more vertices starts on
\* the bounding box, off the hoop.
C21_Witness ==
    /\ gstep = "hoop"
    /\ Len(OuterHoop) >= 3
    /\ Len(hoop.inner_ties) = 1
    /\ \A e \in CyclicPairs(OuterHoop) :
          cross_product(e[1], e[2], OffHoop[1]) > 0
    /\ OnBoundingBox(TieFrom(1), OuterHoop)
    /\ ~OnPolygonBoundary(TieFrom(1), OuterHoop)
    /\ OnSegment(OffHoop[1], TieFrom(1), TieTo(1))

(***************************************************************************)
(* Claims about parse_pingfa, get_design_total and check_compliance in a   *)
(* row.                                                                    *)
(***************************************************************************)
\* The counts of a list of specs, added from the last one on.
RECURSIVE CountsAddedUp(_, _)
CountsAddedUp(specs, k) ==
    IF k = 0 THEN 0 ELSE specs[k].count + CountsAddedUp(specs, k - 1)

\* C22 (parse-then-evaluate composition): the status of
\* check_compliance(n, get_design_total(parse_pingfa(text))) is UNKNOWN if
\* and only if parse_pingfa(text) is empty; a text with at least one valid
\* spec gives a design total of at least 1, the sum of the returned counts,
\* and a status among PASS, WARNING and FAIL.
C22_ParseThenEvaluate ==
    cstep = "done" =>
        /\ (compliance.status = "UNKNOWN") <=> (rebar_config = <<>>)
        /\ rebar_config # <<>> =>
              /\ design_total >= 1
              /\ design_total = CountsAddedUp(rebar_config, Len(rebar_config))
              /\ compliance.status \in {"PASS", "WARNING", "FAIL"}

\* A text with two valid specs whose counts add up to the detected count has
\* been judged PASS.
C22_Witness ==
    /\ cstep = "done"
    /\ Len(rebar_config) = 2
    /\ design_total = rebar_config[1].count + rebar_config[2].count
    /\ detected_count = design_total
    /\ compliance.status = "PASS"

(***************************************************************************)
(* Claims about the distance a segment reports.                            *)
(***************************************************************************)
\* r tenths is a nearest tenth of sqrt(d2) / ppm, for ppm > 0:
\* (r - 1/2) / 10 <= sqrt(d2) / ppm <= (r + 1/2) / 10.
IsNearestTenth(r, d2, ppm) ==
    /\ r >= 0
    /\ r = 0 \/ ((2 * r - 1) * ppm) * ((2 * r - 1) * ppm) <= 400 * d2
    /\ 400 * d2 <= ((2 * r + 1) * ppm) * ((2 * r + 1) * ppm)

\* The window of a slab or wall, in tenths of a mm.
WindowLow == 10 * (target_spacing - tolerance)

WindowHigh == 10 * (target_spacing + tolerance)

\* C23 as stated (reported distance agrees with status): the status of every
\* slab_wall segment is 'pass' iff its reported mm_distance, rounded to one
\* decimal, is within tolerance of target_spacing, and 'fail' otherwise.
C23_StatusFromReportedDistance ==
    (sstep = "done" /\ component_type = "slab_wall") =>
        \A i \in 1..Len(Segments) :
            Segments[i].status =
                IF /\ WindowLow <= Segments[i].mm_distance
                   /\ Segments[i].mm_distance <= WindowHigh
                THEN "pass" ELSE "fail"

\* C23 as amended: the reported mm_distance is the distance of the segment's
\* end points rounded to one decimal, and the status recomputed from it is
\* the segment's status whenever the reported value is more than 0.05 away
\* from both ends of the window (here: is neither end, the ends being whole
\* tenths).
C23_StatusFromReportedDistanceOffEdge ==
    (sstep = "done" /\ component_type = "slab_wall") =>
        \A i \in 1..Len(Segments) :
            /\ IsNearestTenth(Segments[i].mm_distance,
                              SegmentD2(Segments[i]), pixel_per_mm)
            /\ Segments[i].mm_distance \notin {WindowLow, WindowHigh} =>
                  Segments[i].status =
                      IF /\ WindowLow < Segments[i].mm_distance
                         /\ Segments[i].mm_distance < WindowHigh
                      THEN "pass" ELSE "fail"

\* A segment just longer than the window allows is reported with the length
\* of the window's end, and has failed.
C23_Witness ==
    /\ sstep = "done" /\ component_type = "slab_wall"
    /\ \E i \in 1..Len(Segments) :
          /\ Segments[i].mm_distance = WindowHigh
          /\ ~InWindow(SegmentD2(Segments[i]), pixel_per_mm,
                       target_spacing - tolerance, target_spacing + tolerance)
          /\ Segments[i].status = "fail"

(***************************************************************************)
(* Claims about the order of the detections given to                       *)
(* process_spacing_check.                                                  *)
(***************************************************************************)
\* The predictions in ascending (x, y) order: one list that all permutations
\* of a list share.
InTupleOrder(preds) == SortByKey(SortByKey(preds, 2), 1)

\* What the call makes of the predictions in tuple order.
OutcomeInTupleOrder ==
    process_spacing_check(InTupleOrder(predictions), component_type,
                          pixel_per_mm, target_spacing, target_spacing_dense,
                          target_spacing_sparse, tolerance)

\* Two different centers have the same coordinate on the primary axis.
PrimaryAxisTie(preds) ==
    \E i, j \in 1..Len(preds) :
        /\ preds[i] # preds[j]
        /\ preds[i][PrimaryAxis(preds)] = preds[j][PrimaryAxis(preds)]

\* C24 as stated (result independent of detection order): two lists of
\* predictions that are permutations of each other give the same sequence
\* of segments, centers that share a primary-axis coordinate included.  Every
\* list then gives what its permutation in tuple order gives.
C24_IndependentOfDetectionOrder ==
    sstep = "done" => spacing_result = OutcomeInTupleOrder

\* C24 as amended: two lists that are permutations of each other, with no
\* two different centers of the same primary-axis coordinate, have the same
\* outcome: the same sequence of segments, or the same exception.
C24_IndependentOfDetectionOrderWithoutTies ==
    (sstep = "done" /\ predictions # <<>> /\ ~PrimaryAxisTie(predictions)) =>
        spacing_result = OutcomeInTupleOrder

\* Three detections, two of them at one center, given out of order and
\* without a tie on the primary axis, have been joined by two segments.
C24_Witness ==
    /\ sstep = "done"
    /\ Len(predictions) = 3
    /\ Cardinality(ToSet(predictions)) = 2
    /\ ~PrimaryAxisTie(predictions)
    /\ predictions # InTupleOrder(predictions)
    /\ Len(Segments) = 2
    /\ SegmentCenters = InTupleOrder(predictions)

(***************************************************************************)
(* Claims about the vertex convex_hull starts from.                        *)
(***************************************************************************)
\* C25 (fixed hull starting vertex): for an input of at least 3 points the
\* first element of convex_hull's output is the input point that is smallest
\* in (x, y) order.
C25_HullStartsAtSmallestPoint ==
    (gstep = "hull" /\ Len(points) >= 3) =>
        /\ hull # <<>>
        /\ hull[1] \in ToSet(points)
        /\ \A i \in 1..Len(points) : ~TupleLess(points[i], hull[1])

\* A hull of 3 or more vertices of an input whose first point is not the
\* smallest and whose smallest point shares its x with another input point.
C25_Witness ==
    /\ gstep = "hull"
    /\ Len(points) >= 3
    /\ Len(hull) >= 3
    /\ TupleLess(hull[1], points[1])
    /\ \E i \in 1..Len(points) :
          points[i][1] = hull[1][1] /\ points[i][2] > hull[1][2]

(***************************************************************************)
(* Claims about the temporary file of analyze.                             *)
(***************************************************************************)
\* C26 (temporary file cleanup in analyze): a handler that has written its
\* temporary file has returned 200 or 500 only after the file was removed;
\* handlers use different files, and the file of a handler that has not
\* reached its own os.remove is on disk, so no other handler deleted it.
C26_TempFileCleanup ==
    /\ \A r \in DOMAIN handler_pc :
          (handler_pc[r] = "returned" /\ temp_path[r] # 0) =>
              /\ temp_path[r] \notin files
              /\ response[r] \in {200, 500}
    /\ \A r, q \in DOMAIN handler_pc :
          (r # q /\ temp_path[r] # 0) => temp_path[r] # temp_path[q]
    /\ \A r \in DOMAIN handler_pc :
          handler_pc[r] \in {"try", "finally", "remove"} =>
              temp_path[r] \in files

\* One handler has returned 500 and its file is gone, while the file of
\* another, still in its try block, is on disk.
C26_Witness ==
    /\ handler_pc # <<>>
    /\ \E r, q \in DOMAIN handler_pc :
          /\ handler_pc[r] = "returned" /\ response[r] = 500
          /\ temp_path[r] # 0 /\ temp_path[r] \notin files
          /\ handler_pc[q] = "try" /\ temp_path[q] \in files

====
